---- MODULE Spec2Model ----
(***************************************************************************)
(* A model of src/scraping.py, the TU Wien repository scraper.             *)
(*                                                                         *)
(* Text is modelled as a sequence of one-character strings, so that        *)
(* str.split / str.strip / str.find and slicing are computed character by  *)
(* character, as Python computes them. In labels, values and sentinel      *)
(* strings a whole word (a field name, a message) may stand as one         *)
(* element: the code only strips, compares and concatenates them.          *)
(*                                                                         *)
(* One specification per part of the program: SpecDegree (get_degree),     *)
(* SpecFields (get_resource_attributes, get_thesis_info), SpecPage         *)
(* (collect_metadata, scrape_publication_page, get_metrics, get_pdf_link)  *)
(* and SpecLinks (get_all_theses_links, get_thesis_pdf). events records    *)
(* every time.sleep and requests.get in the order the code makes them.     *)
(***************************************************************************)
EXTENDS Integers, Sequences, FiniteSets, TLC

VARIABLES
    \* get_degree
    raw_text,     \* the argument of get_degree
    orig_text,    \* the text before any whitespace was injected into it
    degree,       \* what the last call of get_degree returned
    degree0,      \* what get_degree returned for orig_text
    dpc,          \* "start" | "called" | "dirty"
    \* the field extractors: get_resource_attributes, get_thesis_info
    variant,      \* which of the two is running
    site,         \* what the repository serves: [button, wrapper, rows]
    rows,         \* the rows being iterated
    row_idx,      \* how many rows the loop has consumed
    info_dict,    \* the record under construction (attributes / info_dict)
    fpc,          \* the call's position
    raised,       \* the exception the call ended with, "" if none
    \* collect_metadata, scrape_publication_page, get_metrics, get_pdf_link
    n_calls,      \* how many ids collect_metadata has finished
    id,           \* the id scrape_publication_page is called with
    page,         \* the response requests.get returned for it
    attributes,   \* the record scrape_publication_page builds
    metrics,      \* what the call of get_metrics ended with
    result,       \* what scrape_publication_page returned
    ppc,          \* the call's position
    raised_p,     \* the exception the call ended with, "" if none
    call_start,   \* Len(events) when the call began
    \* get_all_theses_links, get_thesis_pdf
    lop,          \* which of the two is running
    chain,        \* the result pages the repository serves, in order
    current_page, \* the index in chain of the page being parsed
    all_links,    \* the accumulator of get_all_theses_links
    lpc,          \* the call's position
    raised_l,     \* the exception the call ended with, "" if none
    \* every operation that talks to the network
    events        \* the "sleep" and "get" calls made so far, in order

degreeVars == <<raw_text, orig_text, degree, degree0, dpc>>
fieldVars == <<variant, site, rows, row_idx, info_dict, fpc, raised>>

pageVars == <<n_calls, id, page, attributes, metrics, result, ppc, raised_p, call_start>>
linkVars == <<lop, chain, current_page, all_links, lpc, raised_l>>

vars == <<degreeVars, fieldVars, pageVars, linkVars, events>>

-----------------------------------------------------------------------------
(* Python values *)

\* None, and a str value s
None == [is_none |-> TRUE]
Some(s) == [is_none |-> FALSE, str |-> s]

\* The characters str.split() and str.strip() treat as whitespace (the three
\* the PDF decoder injects: space, tab, newline).
Whitespace == {" ", "\t", "\n"}

Min(a, b) == IF a < b THEN a ELSE b
Max(a, b) == IF a > b THEN a ELSE b

\* t[i:] starts with pat (i is 0-based)
StartsWithAt(t, pat, i) ==
    /\ i + Len(pat) <= Len(t)
    /\ \A k \in 1..Len(pat) : t[i + k] = pat[k]

\* str.find(pat): the lowest 0-based index at which pat occurs, or -1
Find(t, pat) ==
    LET hits == {i \in 0..Len(t) : StartsWithAt(t, pat, i)}
    IN  IF hits = {} THEN -1 ELSE CHOOSE i \in hits : \A j \in hits : i <= j

\* pat in t
Contains(t, pat) == \E i \in 0..Len(t) : StartsWithAt(t, pat, i)

\* t[start:end_] with Python's slice rules: a negative index counts from the
\* end, both indices are clamped to [0, len], and an empty range gives "".
Slice(t, start, end_) ==
    LET norm(i) == IF i < 0 THEN Max(i + Len(t), 0) ELSE Min(i, Len(t))
        lo == norm(start)
        hi == norm(end_)
    IN  IF lo >= hi THEN <<>> ELSE SubSeq(t, lo + 1, hi)

\* ''.join(t.split()): every whitespace character removed
RemoveWhitespaceMutantSpacesOnly(t) == SelectSeq(t, LAMBDA c : c # " ")

RemoveWhitespace(t) == SelectSeq(t, LAMBDA c : c \notin Whitespace)

\* s.strip(): leading and trailing whitespace removed
Strip(t) ==
    LET keep == {i \in 1..Len(t) : t[i] \notin Whitespace}
    IN  IF keep = {} THEN <<>>
        ELSE SubSeq(t, CHOOSE i \in keep : \A j \in keep : i <= j,
                       CHOOSE i \in keep : \A j \in keep : i >= j)

\* A dict, in insertion order: a sequence of [key, val] with distinct keys.
HasKey(d, k) == \E i \in 1..Len(d) : d[i].key = k
Get(d, k) == d[CHOOSE i \in 1..Len(d) : d[i].key = k].val
\* d[k] = v
SetItem(d, k, v) ==
    IF HasKey(d, k)
    THEN [i \in 1..Len(d) |-> IF d[i].key = k THEN [key |-> k, val |-> v] ELSE d[i]]
    ELSE Append(d, [key |-> k, val |-> v])

-----------------------------------------------------------------------------
(* Each specification below runs one part of the program; the variables of *)
(* the other parts stay as these predicates leave them.                    *)

NoSite == [button |-> FALSE, wrapper |-> FALSE, rows |-> <<>>]

DegreeIdle ==
    /\ raw_text = <<>>
    /\ orig_text = <<>>
    /\ degree = None
    /\ degree0 = None
    /\ dpc = "idle"

FieldsIdle ==
    /\ variant = "none"
    /\ site = NoSite
    /\ rows = <<>>
    /\ row_idx = 0
    /\ info_dict = <<>>
    /\ fpc = "idle"
    /\ raised = ""

\* a str as a value of the model's text type
Str(word) == <<word>>

CRAWL_DELAY == 5

\* time.sleep(CRAWL_DELAY) and requests.get(...), as entries of events
SleepEvent == [call |-> "sleep", secs |-> CRAWL_DELAY]
GetEvent == [call |-> "get", secs |-> 0]

NoId == [is_int |-> TRUE, n |-> 0]
NoPage == [status |-> 0]
NoResult == [kind |-> "none"]
NoMetrics == [exc |-> "not called"]

PageIdle ==
    /\ n_calls = 0
    /\ id = NoId
    /\ page = NoPage
    /\ attributes = <<>>
    /\ metrics = NoMetrics
    /\ result = NoResult
    /\ ppc = "idle"
    /\ raised_p = ""
    /\ call_start = 0

LinksIdle ==
    /\ lop = "none"
    /\ chain = <<>>
    /\ current_page = 0
    /\ all_links = <<>>
    /\ lpc = "idle"
    /\ raised_l = ""

-----------------------------------------------------------------------------
(* The field extractors: get_resource_attributes, src/scraping.py:241-260, *)
(* and get_thesis_info, src/scraping.py:107-136.                           *)
(*                                                                         *)
(* A row is [label, value]: the text of its metadataFieldLabel div and of  *)
(* its metadataFieldValue div, None where row.find(...) finds no such div. *)
(* A label's or value's text is a sequence of characters; a field name     *)
(* such as dc.subject stands in it as one element, which strip() and the   *)
(* dict treat as they treat any run of non-whitespace characters.          *)

INTERESTING_INFO ==
    {"dc.contributor.advisor", "dc.contributor.author", "dc.date.accessioned",
     "dc.date.issued", "dc.date.submitted", "dc.identifier.uri", "dc.language.iso",
     "dc.subject", "cd.title", "dc.type", "cd.contributor.assistant",
     "tux.publication.orgunit", "cd.type.qualificationlevel",
     "dc.identifier.libraryid", "dc.description.numberOfPages", "dc.thesistype",
     "item.openairetype", "item.openaccessfulltext", "crisitem.author.dept",
     "crisitem.author.parentorg"}

\* info in INTERESTING_INFO
InInterestingInfo(info) == Len(info) = 1 /\ info[1] \in INTERESTING_INFO

Separator == <<",", " ">>

\* One iteration of the loop of get_resource_attributes (lines 249-259)
ResourceRow(attrs, row) ==
    IF ~row.label.is_none /\ ~row.value.is_none
    THEN LET label == Strip(row.label.str)
             value == Strip(row.value.str)
         IN  IF HasKey(attrs, label)
             THEN SetItem(attrs, label, Get(attrs, label) \o Separator \o value)
             ELSE SetItem(attrs, label, value)
    ELSE attrs

\* get_resource_attributes(rows): the loop run over all the rows
RECURSIVE ResourceRowsFrom(_, _, _)
ResourceRowsFrom(attrs, rs, i) ==
    IF i > Len(rs) THEN attrs
    ELSE ResourceRowsFrom(ResourceRow(attrs, rs[i]), rs, i + 1)

get_resource_attributes(rs) == ResourceRowsFrom(<<>>, rs, 1)

\* One iteration of the loop of get_thesis_info (lines 127-134) raises when
\* the row has a label div and no value div: line 129 reads None.text.
ThesisRowRaises(row) == ~row.label.is_none /\ row.value.is_none

ThesisRow(d, row) ==
    IF ~row.label.is_none
    THEN LET info == Strip(row.label.str)
             data == Strip(row.value.str)
         IN  IF InInterestingInfo(info)
             THEN IF HasKey(d, info)
                  THEN SetItem(d, info, Get(d, info) \o Separator \o data)
                  ELSE SetItem(d, info, data)
             ELSE d
    ELSE d

\* The rows a page may hold
MaxRows == 3

LabelTexts == {<<"dc.subject">>, <<" ", "dc.subject", "\n">>, <<"Views">>}
ValueTexts == {<<"x">>, <<"\t", "y", " ", "z", " ">>}
OptionOf(S) == {None} \cup {Some(t) : t \in S}
Rows == [label : OptionOf(LabelTexts), value : OptionOf(ValueTexts)]
RowSeqsUpTo(n) == UNION {[1..k -> Rows] : k \in 0..n}

\* What the repository serves to get_thesis_info: whether the thesis page has
\* the btn-primary link, whether the full item record has wrapperDisplayItem,
\* and that wrapper's metadata rows.
ThesisSites ==
    {[button |-> FALSE, wrapper |-> FALSE, rows |-> <<>>],
     [button |-> TRUE, wrapper |-> FALSE, rows |-> <<>>]}
    \cup {[button |-> TRUE, wrapper |-> TRUE, rows |-> rs] : rs \in RowSeqsUpTo(MaxRows)}

FieldsInit ==
    /\ DegreeIdle
    /\ PageIdle
    /\ LinksIdle
    /\ events = <<>>
    /\ row_idx = 0
    /\ info_dict = <<>>
    /\ raised = ""
    /\ \/ /\ variant = "get_resource_attributes"
          /\ site = NoSite
          /\ rows \in RowSeqsUpTo(MaxRows)
          /\ fpc = "loop"
       \/ /\ variant = "get_thesis_info"
          /\ site \in ThesisSites
          /\ rows = <<>>
          /\ fpc = "start"

\* get_resource_attributes, lines 248-259: the loop body on the next row
ResourceRowStep ==
    /\ variant = "get_resource_attributes"
    /\ fpc = "loop"
    /\ row_idx < Len(rows)
    /\ info_dict' = ResourceRow(info_dict, rows[row_idx + 1])
    /\ row_idx' = row_idx + 1
    /\ UNCHANGED <<variant, site, rows, fpc, raised, degreeVars, pageVars, linkVars, events>>

\* get_thesis_info, lines 114-115: the thesis page is fetched and parsed
ThesisGetPage ==
    /\ variant = "get_thesis_info"
    /\ fpc = "start"
    /\ events' = Append(events, GetEvent)
    /\ fpc' = "button"
    /\ UNCHANGED <<variant, site, rows, row_idx, info_dict, raised, degreeVars, pageVars, linkVars>>

\* lines 116-121: the full item record is fetched through the button's link.
\* Line 117 reads button.text before line 118 tests the button: without a
\* button the call ends there with an AttributeError.
ThesisFollowButton ==
    /\ variant = "get_thesis_info"
    /\ fpc = "button"
    /\ IF site.button
       THEN /\ events' = Append(events, GetEvent)
            /\ fpc' = "table"
            /\ raised' = raised
       ELSE /\ events' = events
            /\ fpc' = "raised"
            /\ raised' = "AttributeError"
    /\ UNCHANGED <<variant, site, rows, row_idx, info_dict, degreeVars, pageVars, linkVars>>

\* lines 124-125: the rows of wrapperDisplayItem; table.find_all on None raises
ThesisFindRows ==
    /\ variant = "get_thesis_info"
    /\ fpc = "table"
    /\ IF site.wrapper
       THEN /\ rows' = site.rows
            /\ fpc' = "loop"
            /\ raised' = raised
       ELSE /\ rows' = rows
            /\ fpc' = "raised"
            /\ raised' = "AttributeError"
    /\ UNCHANGED <<variant, site, row_idx, info_dict, degreeVars, pageVars, linkVars, events>>

\* lines 126-134: the loop body on the next row
ThesisRowStep ==
    /\ variant = "get_thesis_info"
    /\ fpc = "loop"
    /\ row_idx < Len(rows)
    /\ IF ThesisRowRaises(rows[row_idx + 1])
       THEN /\ fpc' = "raised"
            /\ raised' = "AttributeError"
            /\ UNCHANGED <<info_dict, row_idx>>
       ELSE /\ info_dict' = ThesisRow(info_dict, rows[row_idx + 1])
            /\ row_idx' = row_idx + 1
            /\ UNCHANGED <<fpc, raised>>
    /\ UNCHANGED <<variant, site, rows, degreeVars, pageVars, linkVars, events>>

\* lines 136 and 260: the loop is over and the record is returned
FieldsReturn ==
    /\ fpc = "loop"
    /\ row_idx = Len(rows)
    /\ fpc' = "returned"
    /\ UNCHANGED <<variant, site, rows, row_idx, info_dict, raised, degreeVars, pageVars, linkVars, events>>

FieldsNext ==
    \/ ResourceRowStep
    \/ ThesisGetPage
    \/ ThesisFollowButton
    \/ ThesisFindRows
    \/ ThesisRowStep
    \/ FieldsReturn

SpecFields == FieldsInit /\ [][FieldsNext]_vars

\* the rows the running extractor is given
InputRows == IF variant = "get_thesis_info" THEN site.rows ELSE rows

FieldsEnded == fpc \in {"returned", "raised"}

\* the rows reached the loop: the pages get_thesis_info needs were there
LoopReached == variant = "get_thesis_info" => (site.button /\ site.wrapper)

C6_RowsOf(rs, L) ==
    SelectSeq(rs, LAMBDA r : ~r.label.is_none /\ Strip(r.label.str) = L)

C6_Labels(rs) == {Strip(rs[i].label.str) : i \in {j \in 1..Len(rs) : ~rs[j].label.is_none}}

RECURSIVE C6_Joined(_)
C6_Joined(rs) ==
    IF Len(rs) = 1 THEN Strip(rs[1].value.str)
    ELSE C6_Joined(SubSeq(rs, 1, Len(rs) - 1)) \o <<",", " ">> \o Strip(rs[Len(rs)].value.str)

C6_Recognized(L) == variant = "get_resource_attributes" \/ InInterestingInfo(L)

C6_Holds(L) ==
    /\ Cardinality({i \in 1..Len(info_dict) : info_dict[i].key = L}) = 1
    /\ Get(info_dict, L) = C6_Joined(C6_RowsOf(InputRows, L))

\* C6: in both extractors, for every sequence of rows, a (recognized) label
\* whose trimmed text occurs in N rows that each have a value ends as exactly
\* one entry of the final record, whose value is the N trimmed values joined
\* by ", " in document order.
C6_RepeatedLabelsJoined ==
    (FieldsEnded /\ LoopReached) =>
        \A L \in C6_Labels(InputRows) :
            (C6_Recognized(L) /\ \A i \in 1..Len(C6_RowsOf(InputRows, L)) :
                                    ~C6_RowsOf(InputRows, L)[i].value.is_none)
            => (fpc = "returned" /\ C6_Holds(L))

C9_Complete(r) == ~r.label.is_none /\ ~r.value.is_none

RECURSIVE C9_ThesisRecord(_, _, _)
C9_ThesisRecord(d, rs, i) ==
    IF i > Len(rs) THEN d ELSE C9_ThesisRecord(ThesisRow(d, rs[i]), rs, i + 1)

C9_Expected ==
    LET complete == SelectSeq(InputRows, C9_Complete)
    IN  IF variant = "get_thesis_info" THEN C9_ThesisRecord(<<>>, complete, 1)
        ELSE get_resource_attributes(complete)

\* C9: in both extractors a row that lacks the label element or the value
\* element is skipped silently: the call does not raise, and the record is
\* the one the remaining rows give.
C9_IncompleteRowsSkipped ==
    (FieldsEnded /\ LoopReached) => (fpc = "returned" /\ info_dict = C9_Expected)

-----------------------------------------------------------------------------
(* scrape_publication_page, src/scraping.py:190-239, with get_metrics      *)
(* (262-283), get_pdf_link (285-295) and collect_metadata (297-305).       *)
(*                                                                         *)
(* A response is [status, invalid_h1, wrapper, table, rows, panel,         *)
(* bitstream]: whether the body has an h1 whose trimmed text is "Invalid   *)
(* Identifier", a div#wrapperDisplayItem, in it a div.row, in that the     *)
(* metadata rows; the panel-list-right div with its two counters; and the  *)
(* item-bitstream-grid-bitstream-type div of the wrapper.                  *)

IdLimit == 300000

\* lines 200-205: the ValueError the identifier raises, "" if it is valid
IdErrorMutantOffByOne(i) ==
    IF ~i.is_int THEN "ValueError: id must be an integer"
    ELSE IF i.n < 0 THEN "ValueError: id must be a positive integer"
    ELSE IF i.n > IdLimit THEN "ValueError: id must be less than 300_000"
    ELSE ""

IdError(i) ==
    IF ~i.is_int THEN "ValueError: id must be an integer"
    ELSE IF i.n < 0 THEN "ValueError: id must be a positive integer"
    ELSE IF i.n >= IdLimit THEN "ValueError: id must be less than 300_000"
    ELSE ""

\* str(page.status_code)
StatusText(status) == IF status = 404 THEN "404" ELSE IF status = 500 THEN "500" ELSE "200"

\* line 210: f'Negative response: {page.status_code}'
NegativeResponse(status) == <<"Negative response: ", StatusText(status)>>

\* line 215: the lambda given to soup.find. For an h1 it compares the bound
\* method tag.get_text().strip (the call's parentheses are missing) with a
\* str, and a method never equals a str: no tag satisfies it.
InvalidIdentifierFound(pg) == pg.invalid_h1 /\ FALSE

\* get_metrics, lines 268-283. Without a panel line 270 sets both values to
\* "Panel not found" and line 272 then reads panel.find on None, which raises.
get_metrics(pg) ==
    IF pg.panel.absent
    THEN [exc |-> "AttributeError"]
    ELSE [exc |-> "",
          views |-> IF pg.panel.view.is_none THEN Str("Views not found")
                    ELSE Strip(pg.panel.view.str),
          downloads |-> IF pg.panel.download.is_none THEN Str("Downloads not found")
                        ELSE Strip(pg.panel.download.str)]

\* get_pdf_link, lines 291-295: link_div.find('a')['href'] raises TypeError
\* when the div holds no link
get_pdf_link(pg) ==
    IF pg.bitstream = "absent" THEN [exc |-> "", value |-> Str("No bitstream grid found")]
    ELSE IF pg.bitstream = "no_link" THEN [exc |-> "TypeError"]
    ELSE [exc |-> "", value |-> Str("/bitstream/thesis.pdf")]

StrResult(t) == [kind |-> "str", str |-> t]
DictResult(d) == [kind |-> "dict", dict |-> d]

\* The ids and responses the model draws from
MaxIds == 2

IdChoices ==
    {[is_int |-> FALSE, n |-> 0]}
    \cup {[is_int |-> TRUE, n |-> k] : k \in {-1, 0, 299999, 300000, 300001}}

rowSubject == [label |-> Some(<<" ", "dc.subject">>), value |-> Some(<<"x", " ">>)]
rowViews == [label |-> Some(<<"Views">>), value |-> Some(<<"7">>)]
rowDownloads == [label |-> Some(<<"Downloads", "\n">>), value |-> Some(<<"9">>)]
rowPdfLink == [label |-> Some(<<"PDF link">>), value |-> Some(<<"u">>)]
rowNoValue == [label |-> Some(<<"dc.subject">>), value |-> None]

PageRowLists ==
    {<<>>, <<rowSubject>>, <<rowSubject, rowSubject>>, <<rowNoValue, rowSubject>>,
     <<rowViews, rowSubject>>, <<rowSubject, rowDownloads>>, <<rowPdfLink>>}

Panels ==
    {[absent |-> TRUE, view |-> None, download |-> None]}
    \cup [absent : {FALSE}, view : OptionOf({<<" ", "1,234", " ">>}),
          download : OptionOf({<<"56">>})]

Bitstreams == {"absent", "no_link", "link"}

Pages ==
    {[status |-> st, invalid_h1 |-> FALSE, wrapper |-> FALSE, table |-> FALSE,
      rows |-> <<>>, panel |-> [absent |-> TRUE, view |-> None, download |-> None],
      bitstream |-> "absent"] : st \in {404, 500}}
    \cup {[status |-> 200, invalid_h1 |-> h, wrapper |-> w, table |-> FALSE,
           rows |-> <<>>, panel |-> pn, bitstream |-> "absent"] :
              h \in BOOLEAN, w \in BOOLEAN, pn \in Panels}
    \cup {[status |-> 200, invalid_h1 |-> h, wrapper |-> TRUE, table |-> TRUE,
           rows |-> rs, panel |-> pn, bitstream |-> b] :
              h \in BOOLEAN, rs \in PageRowLists, pn \in Panels, b \in Bitstreams}

PageInit ==
    /\ DegreeIdle
    /\ FieldsIdle
    /\ LinksIdle
    /\ PageIdle
    /\ events = <<>>

\* collect_metadata, lines 303-305: the loop calls scrape_publication_page
\* with the next id of the list
CollectNext ==
    /\ ppc = "idle"
    /\ n_calls < MaxIds
    /\ id' \in IdChoices
    /\ call_start' = Len(events)
    /\ page' = NoPage
    /\ attributes' = <<>>
    /\ metrics' = NoMetrics
    /\ result' = NoResult
    /\ ppc' = "validate"
    /\ UNCHANGED <<n_calls, raised_p, degreeVars, fieldVars, linkVars, events>>

\* lines 200-206: the identifier is validated
ValidateId ==
    /\ ppc = "validate"
    /\ IF IdError(id) # ""
       THEN /\ ppc' = "raised"
            /\ raised_p' = IdError(id)
       ELSE /\ ppc' = "sleep"
            /\ raised_p' = raised_p
    /\ UNCHANGED <<n_calls, id, page, attributes, metrics, result, call_start,
                   degreeVars, fieldVars, linkVars, events>>

\* line 207: time.sleep(CRAWL_DELAY)
PageSleep ==
    /\ ppc = "sleep"
    /\ events' = Append(events, SleepEvent)
    /\ ppc' = "get"
    /\ UNCHANGED <<n_calls, id, page, attributes, metrics, result, raised_p, call_start,
                   degreeVars, fieldVars, linkVars>>

\* lines 208-210: the page is fetched; a status other than 200 ends the call
PageGet ==
    /\ ppc = "get"
    /\ events' = Append(events, GetEvent)
    /\ \E pg \in Pages :
          /\ page' = pg
          /\ IF pg.status # 200
             THEN /\ result' = StrResult(NegativeResponse(pg.status))
                  /\ ppc' = "returned"
             ELSE /\ result' = result
                  /\ ppc' = "parsed"
    /\ UNCHANGED <<n_calls, id, attributes, metrics, raised_p, call_start,
                   degreeVars, fieldVars, linkVars>>

\* lines 212-229: the identifier check, the wrapper, the row container, the
\* metadata rows, and the record get_resource_attributes makes of them
PageExtract ==
    /\ ppc = "parsed"
    /\ IF InvalidIdentifierFound(page)
       THEN /\ result' = StrResult(Str("Invalid Identifier"))
            /\ ppc' = "returned"
            /\ attributes' = attributes
       ELSE IF ~page.wrapper
       THEN /\ result' = StrResult(Str("No wrapperDisplayItem found"))
            /\ ppc' = "returned"
            /\ attributes' = attributes
       ELSE IF ~page.table
       THEN /\ result' = StrResult(Str("No row class found"))
            /\ ppc' = "returned"
            /\ attributes' = attributes
       ELSE IF page.rows = <<>>
       THEN /\ result' = StrResult(Str("No metadata rows found"))
            /\ ppc' = "returned"
            /\ attributes' = attributes
       ELSE /\ attributes' = get_resource_attributes(page.rows)
            /\ ppc' = "metrics"
            /\ result' = result
    /\ UNCHANGED <<n_calls, id, page, metrics, raised_p, call_start,
                   degreeVars, fieldVars, linkVars, events>>

\* lines 232-234: get_metrics, and its two values stored under fixed keys
PageMetrics ==
    /\ ppc = "metrics"
    /\ metrics' = get_metrics(page)
    /\ IF get_metrics(page).exc # ""
       THEN /\ ppc' = "raised"
            /\ raised_p' = get_metrics(page).exc
            /\ attributes' = attributes
       ELSE /\ ppc' = "pdf"
            /\ raised_p' = raised_p
            /\ attributes' = SetItem(SetItem(attributes, Str("Views"), get_metrics(page).views),
                                     Str("Downloads"), get_metrics(page).downloads)
    /\ UNCHANGED <<n_calls, id, page, result, call_start,
                   degreeVars, fieldVars, linkVars, events>>

\* lines 237-239: get_pdf_link, stored under "PDF link"; the record is returned
PagePdfLink ==
    /\ ppc = "pdf"
    /\ IF get_pdf_link(page).exc # ""
       THEN /\ ppc' = "raised"
            /\ raised_p' = get_pdf_link(page).exc
            /\ UNCHANGED <<attributes, result>>
       ELSE /\ attributes' = SetItem(attributes, Str("PDF link"), get_pdf_link(page).value)
            /\ result' = DictResult(attributes')
            /\ ppc' = "returned"
            /\ raised_p' = raised_p
    /\ UNCHANGED <<n_calls, id, page, metrics, call_start,
                   degreeVars, fieldVars, linkVars, events>>

\* line 305: json.dump writes what the call returned; the loop goes on
CollectDump ==
    /\ ppc = "returned"
    /\ n_calls' = n_calls + 1
    /\ ppc' = "idle"
    /\ UNCHANGED <<id, page, attributes, metrics, result, raised_p, call_start,
                   degreeVars, fieldVars, linkVars, events>>

PageNext ==
    \/ CollectNext
    \/ ValidateId
    \/ PageSleep
    \/ PageGet
    \/ PageExtract
    \/ PageMetrics
    \/ PagePdfLink
    \/ CollectDump

SpecPage == PageInit /\ [][PageNext]_vars

\* C1: get_metrics on a document without the panel-list-right div returns
\* normally, with views = downloads = "Panel not found".
C1_PanelAbsentSentinel ==
    (metrics # NoMetrics /\ page.panel.absent) =>
        metrics = [exc |-> "", views |-> Str("Panel not found"),
                   downloads |-> Str("Panel not found")]

\* C2: for a valid id whose response has status 200 and an h1 with trimmed
\* text "Invalid Identifier", scrape_publication_page returns exactly
\* 'Invalid Identifier', before any wrapper, row, metrics or PDF-link lookup.
C2_InvalidIdentifierSentinel ==
    (ppc \in {"metrics", "pdf", "returned", "raised", "idle"}
        /\ page.status = 200 /\ page.invalid_h1) =>
        (/\ ppc \in {"returned", "idle"}
         /\ result = StrResult(Str("Invalid Identifier"))
         /\ metrics = NoMetrics)

C3_OutOfRange(i) == i.is_int /\ (i.n < 0 \/ i.n >= 300000)

C3_ValueErrors ==
    {"ValueError: id must be an integer", "ValueError: id must be a positive integer",
     "ValueError: id must be less than 300_000"}

\* C3: scrape_publication_page raises ValueError for every id that is
\* negative or >= 300000, with no sleep and no fetch made by that call
\* before the raise, and raises no ValueError for an integer id in
\* [0, 300000).
C3_InvalidIdRaisesBeforeFetch ==
    ppc \notin {"idle", "validate"} =>
        /\ C3_OutOfRange(id) =>
              (ppc = "raised" /\ raised_p \in C3_ValueErrors /\ Len(events) = call_start)
        /\ (id.is_int /\ ~C3_OutOfRange(id)) => raised_p \notin C3_ValueErrors

\* the second id of a batch is exactly 300000 and the call raised
C3_Witness ==
    /\ ppc = "raised"
    /\ id = [is_int |-> TRUE, n |-> 300000]
    /\ n_calls = 1
    /\ Len(events) = 2

IsPrefix(a, b) == Len(a) <= Len(b) /\ SubSeq(b, 1, Len(a)) = a

\* C10: while a record is built, the merge of "Views", "Downloads" and
\* "PDF link" included, a label that has a value keeps it as a prefix of
\* every later value: values are extended, never replaced.
C10_AppendOnly ==
    [][ppc # "idle" =>
          \A i \in 1..Len(attributes) :
              /\ HasKey(attributes', attributes[i].key)
              /\ IsPrefix(attributes[i].val, Get(attributes', attributes[i].key))]_vars

-----------------------------------------------------------------------------
(* get_all_theses_links, src/scraping.py:77-95, with next_results_page     *)
(* (45-60) and get_theses_links (62-75); get_thesis_pdf, 138-149.          *)
(*                                                                         *)
(* A served page is [table, anchors, pager, next, bitstream]: whether it   *)
(* has the results table, the href of each <a> of the page (None for an    *)
(* <a> without href), its pagination list ("absent", "no_next": a list     *)
(* without a link named Next, "next"), the page the Next link leads to,    *)
(* and the thesis page's bitstream div.                                    *)

HandlePrefix == <<"/", "h", "a", "n", "d", "l", "e", "/">>

\* next_results_page, lines 52-60: the page the Next link leads to, or None
next_results_page(pg) ==
    IF pg.pager = "absent" THEN None
    ELSE IF pg.pager = "next" THEN Some(pg.next)
    ELSE None

\* get_theses_links, lines 68-75
get_theses_linksMutantNoPrefix(pg) ==
    IF pg.table
    THEN LET withHref == SelectSeq(pg.anchors, LAMBDA a : ~a.is_none)
         IN  [i \in 1..Len(withHref) |-> withHref[i].str]
    ELSE <<>>

get_theses_links(pg) ==
    IF pg.table
    THEN LET kept == SelectSeq(pg.anchors,
                         LAMBDA a : ~a.is_none /\ StartsWithAt(a.str, HandlePrefix, 0))
         IN  [i \in 1..Len(kept) |-> kept[i].str]
    ELSE <<>>

MaxPages == 3

hrefHandle1 == Some(HandlePrefix \o <<"1">>)
hrefHandle2 == Some(HandlePrefix \o <<"2">>)
hrefNearMiss == Some(<<"/", "h", "a", "n", "d", "l", "e">>)

AnchorLists ==
    {<<>>, <<hrefHandle1>>, <<hrefHandle2, hrefHandle1>>, <<hrefNearMiss, hrefHandle2>>,
     <<None, hrefHandle1, hrefHandle1>>}

PageContents ==
    {[table |-> TRUE, anchors |-> al] : al \in AnchorLists}
    \cup {[table |-> FALSE, anchors |-> <<hrefHandle1>>]}

ResultPage(content, pager, next) ==
    [table |-> content.table, anchors |-> content.anchors, pager |-> pager,
     next |-> next, bitstream |-> "absent"]

\* n result pages, each but the last with a Next link to the one after it
ChainsOf(n) ==
    {[i \in 1..n |-> IF i < n THEN ResultPage(cs[i], "next", i + 1)
                     ELSE ResultPage(cs[i], last, 0)] :
        cs \in [1..n -> PageContents], last \in {"absent", "no_next"}}

ThesisPage(b) ==
    [table |-> FALSE, anchors |-> <<>>, pager |-> "absent", next |-> 0, bitstream |-> b]

LinksInit ==
    /\ DegreeIdle
    /\ FieldsIdle
    /\ PageIdle
    /\ events = <<>>
    /\ current_page = 0
    /\ all_links = <<>>
    /\ lpc = "start"
    /\ raised_l = ""
    /\ \/ /\ lop = "get_all_theses_links"
          /\ chain \in UNION {ChainsOf(n) : n \in 1..MaxPages}
       \/ /\ lop = "get_thesis_pdf"
          /\ chain \in {<<ThesisPage(b)>> : b \in Bitstreams}

\* lines 83-84: the start page is fetched
LinksStart ==
    /\ lop = "get_all_theses_links"
    /\ lpc = "start"
    /\ events' = Append(events, GetEvent)
    /\ current_page' = 1
    /\ lpc' = "loop"
    /\ UNCHANGED <<lop, chain, all_links, raised_l, degreeVars, fieldVars, pageVars>>

\* lines 86-95: one turn of the loop. The page's links are appended; with a
\* next page the call sleeps, fetches it and goes round again; without one
\* it breaks and returns.
LinksIteration ==
    /\ lop = "get_all_theses_links"
    /\ lpc = "loop"
    /\ all_links' = all_links \o get_theses_links(chain[current_page])
    /\ IF ~next_results_page(chain[current_page]).is_none
       THEN /\ events' = events \o <<SleepEvent, GetEvent>>
            /\ current_page' = next_results_page(chain[current_page]).str
            /\ lpc' = lpc
       ELSE /\ lpc' = "returned"
            /\ UNCHANGED <<events, current_page>>
    /\ UNCHANGED <<lop, chain, raised_l, degreeVars, fieldVars, pageVars>>

\* get_thesis_pdf, lines 144-145: the thesis page is fetched
PdfGetPage ==
    /\ lop = "get_thesis_pdf"
    /\ lpc = "start"
    /\ events' = Append(events, GetEvent)
    /\ current_page' = 1
    /\ lpc' = "link"
    /\ UNCHANGED <<lop, chain, all_links, raised_l, degreeVars, fieldVars, pageVars>>

\* lines 146-149: the PDF is fetched through the bitstream div's link.
\* link_div.find on None raises AttributeError, find('a')['href'] on a div
\* without a link raises TypeError.
PdfFollowLink ==
    /\ lop = "get_thesis_pdf"
    /\ lpc = "link"
    /\ IF chain[current_page].bitstream = "absent"
       THEN /\ lpc' = "raised"
            /\ raised_l' = "AttributeError"
            /\ events' = events
       ELSE IF chain[current_page].bitstream = "no_link"
       THEN /\ lpc' = "raised"
            /\ raised_l' = "TypeError"
            /\ events' = events
       ELSE /\ events' = Append(events, GetEvent)
            /\ lpc' = "returned"
            /\ raised_l' = raised_l
    /\ UNCHANGED <<lop, chain, current_page, all_links, degreeVars, fieldVars, pageVars>>

LinksNext ==
    \/ LinksStart
    \/ LinksIteration
    \/ PdfGetPage
    \/ PdfFollowLink

SpecLinks == LinksInit /\ [][LinksNext]_vars

\* The calls are sequential and blocking: a call that can take a step takes it.
SpecLinksLive == SpecLinks /\ WF_vars(LinksNext)

\* C4: in every operation that fetches, each requests.get is preceded by a
\* time.sleep(CRAWL_DELAY) made after the previous fetch: no fetch without a
\* delay right before it.
C4_DelayBeforeEveryFetch ==
    \A i \in 1..Len(events) :
        events[i].call = "get" =>
            (i > 1 /\ events[i - 1] = [call |-> "sleep", secs |-> 5])

C5_PageLinks(pg) ==
    IF ~pg.table THEN <<>>
    ELSE LET kept == SelectSeq(pg.anchors,
                         LAMBDA a : /\ ~a.is_none
                                    /\ Len(a.str) >= 8
                                    /\ SubSeq(a.str, 1, 8) =
                                         <<"/", "h", "a", "n", "d", "l", "e", "/">>)
         IN  [i \in 1..Len(kept) |-> kept[i].str]

RECURSIVE C5_Concatenation(_, _)
C5_Concatenation(ch, i) ==
    IF i > Len(ch) THEN <<>> ELSE C5_PageLinks(ch[i]) \o C5_Concatenation(ch, i + 1)

C5_Count(call) == Cardinality({i \in 1..Len(events) : events[i].call = call})

\* C5: on a chain of N >= 1 result pages, each but the last with a Next
\* link to the one after it, get_all_theses_links terminates, returns the
\* pages' '/handle/' links of the results table concatenated in page order,
\* makes exactly N fetches and N - 1 delays, and stops only at a page
\* without a Next link.
C5_LinkCollector ==
    /\ [](lop = "get_all_theses_links" /\ lpc = "returned" =>
            /\ all_links = C5_Concatenation(chain, 1)
            /\ C5_Count("get") = Len(chain)
            /\ C5_Count("sleep") = Len(chain) - 1
            /\ current_page = Len(chain)
            /\ chain[current_page].pager # "next")
    /\ (lop = "get_all_theses_links" ~> lpc = "returned")

\* a two-page result set was collected with one delay between the pages
C5_Witness ==
    /\ lop = "get_all_theses_links"
    /\ lpc = "returned"
    /\ Len(chain) = 2
    /\ all_links = <<HandlePrefix \o <<"2">>, HandlePrefix \o <<"1">>, HandlePrefix \o <<"2">>>>
    /\ events = <<GetEvent, SleepEvent, GetEvent>>

-----------------------------------------------------------------------------
(* get_degree, src/scraping.py:164-188 *)

opening_text_en == <<"d", "e", "g", "r", "e", "e", "o", "f">>
closing_text_en == <<"b", "y">>
opening_text_de == <<"d", "e", "s", "S", "t", "u", "d", "i", "u", "m", "s">>
closing_text_de == <<"e", "i", "n", "g", "e", "r", "e", "i", "c", "h", "t", "v", "o", "n">>

get_degree(text_in) ==
    LET text == RemoveWhitespace(text_in)
    IN  IF Contains(text, opening_text_en)
        THEN LET start == Find(text, opening_text_en) + Len(opening_text_en)
                 end_ == Find(text, closing_text_en)
             IN  Some(Slice(text, start, end_))
        ELSE IF Contains(text, opening_text_de)
        THEN LET start == Find(text, opening_text_de) + Len(opening_text_de)
                 end_ == Find(text, closing_text_de)
             IN  Some(Slice(text, start, end_))
        ELSE None

\* The first-page texts get_degree is run on: an optional leading phrase, an
\* optional opening anchor, a degree name, an optional closing marker and a
\* trailing phrase.
MaxInjected == 1

LeadPhrases == {<<>>, <<"b", "y", " ">>}
OpeningPhrases == {<<>>, <<"d", "e", "g", "r", "e", "e", " ", "o", "f", " ">>,
                   <<"d", "e", "s", " ", "S", "t", "u", "d", "i", "u", "m", "s", "\n">>}
DegreeNames == {<<>>, <<"M", " ", "o", "f", " ", "S", "c">>, <<"I", "n", "f">>}
ClosingPhrases == {<<>>, <<" ", "b", "y", " ">>,
                   <<"\n", "e", "i", "n", "g", "e", "r", "e", "i", "c", "h", "t", " ", "v", "o", "n", " ">>}
TailPhrases == {<<>>, <<"X", "b", "y">>}

FirstPageTexts ==
    {a \o b \o c \o d \o e : a \in LeadPhrases, b \in OpeningPhrases,
        c \in DegreeNames, d \in ClosingPhrases, e \in TailPhrases}

InsertAt(t, i, c) == SubSeq(t, 1, i) \o <<c>> \o SubSeq(t, i + 1, Len(t))

InjectedCount == Len(raw_text) - Len(orig_text)

DegreeInit ==
    /\ FieldsIdle
    /\ PageIdle
    /\ LinksIdle
    /\ events = <<>>
    /\ raw_text \in FirstPageTexts
    /\ orig_text = raw_text
    /\ degree = None
    /\ degree0 = None
    /\ dpc = "start"

\* a call of get_degree on the current text
GetDegree ==
    /\ dpc \in {"start", "dirty"}
    /\ degree' = get_degree(raw_text)
    /\ degree0' = IF dpc = "start" THEN get_degree(raw_text) ELSE degree0
    /\ dpc' = "called"
    /\ UNCHANGED <<raw_text, orig_text, fieldVars, pageVars, linkVars, events>>

\* the PDF-to-text step puts one more whitespace character somewhere in the text
InjectWhitespace ==
    /\ dpc = "called"
    /\ InjectedCount < MaxInjected
    /\ \E i \in 0..Len(raw_text), c \in Whitespace :
          raw_text' = InsertAt(raw_text, i, c)
    /\ dpc' = "dirty"
    /\ UNCHANGED <<orig_text, degree, degree0, fieldVars, pageVars, linkVars, events>>

DegreeNext == GetDegree \/ InjectWhitespace

SpecDegree == DegreeInit /\ [][DegreeNext]_vars

\* C7: get_degree gives the same result for a text and for the text with
\* spaces, tabs or newlines inserted into it, the absent result included.
C7_WhitespaceInvariant == dpc = "called" => degree = degree0

\* whitespace went into the English opening anchor and a degree was extracted
C7_Witness ==
    /\ dpc = "called"
    /\ InjectedCount > 0
    /\ Contains(orig_text, <<"d", "e", "g", "r", "e", "e">>)
    /\ ~Contains(raw_text, <<"d", "e", "g", "r", "e", "e">>)
    /\ ~degree.is_none
    /\ degree.str = <<"M", "o", "f", "S", "c">>

\* i is the first index of p in s
C8_FirstIndex(s, p, i) ==
    /\ i \in 0..(Len(s) - Len(p))
    /\ SubSeq(s, i + 1, i + Len(p)) = p
    /\ \A j \in 0..(i - 1) : SubSeq(s, j + 1, j + Len(p)) # p

C8_Occurs(s, p) == \E i \in 0..Len(s) : C8_FirstIndex(s, p, i)

\* s[a, b): the characters at the 0-based positions a <= k < b
C8_Between(s, a, b) == [k \in 1..(b - a) |-> s[a + k]]

\* the first index of p in s, and -1 (the answer of str.find) if there is none
C8_IndexOf(s, p) ==
    IF C8_Occurs(s, p) THEN CHOOSE i \in 0..Len(s) : C8_FirstIndex(s, p, i) ELSE -1

C8_Window(s, opening, closing) ==
    Some(C8_Between(s, C8_IndexOf(s, opening) + Len(opening), C8_IndexOf(s, closing)))

\* C8: with s the whitespace-free text, get_degree returns s[start, end)
\* between the English anchors if "degreeof" occurs, else between the German
\* anchors if "desStudiums" occurs, else nothing; start is the end of the
\* first opening anchor and end the first index of the closing marker in s,
\* and the result is the substring between the two.
C8_GetDegreeReference ==
    dpc = "called" =>
        LET s == RemoveWhitespace(raw_text)
        IN  IF C8_Occurs(s, opening_text_en)
            THEN degree = C8_Window(s, opening_text_en, closing_text_en)
            ELSE IF C8_Occurs(s, opening_text_de)
            THEN degree = C8_Window(s, opening_text_de, closing_text_de)
            ELSE degree = None

====
